---- MODULE Spec2Model ----
(***************************************************************************)
(* State-machine model of the Flappy Bird game of this repository:         *)
(* Bird (js/bird.js), PipeManager (js/pipe.js), ScoreManager               *)
(* (js/score.js), InputHandler (js/input.js), GameStateManager             *)
(* (js/game-states.js) and the host loop Game (js/game.js).                *)
(*                                                                         *)
(* Numbers.  The program computes with doubles.  Vertical positions and    *)
(* velocities are kept here in fixed point, Scale units per pixel, so that *)
(* gravity (0.5), the menu gravity (0.3) and the first bounces (x 0.3) are *)
(* exact; rotations are kept in RotScale units per degree.  Horizontal     *)
(* positions are whole pixels, as in the program (pipes move 2 px/frame).  *)
(*                                                                         *)
(* Not modelled: drawing, sounds, CSS classes of the overlay screens, the  *)
(* score pop-up animations and the write-only "games played" statistic.    *)
(***************************************************************************)
EXTENDS Integers, Sequences, FiniteSets, TLC

\* ------------------------------------------------------------------------
\* Fixed-point units
Scale == 2 * 1000
RotScale == 10 * 100

\* ------------------------------------------------------------------------
\* Program constants
canvasWidth == 320
canvasHeight == 568
groundHeight == 50
startX == 80
startY == 200
birdWidth == 20
birdHeight == 20
gravity == Scale \div 2
jumpVelocity == (0 - 8) * Scale
\* A lower terminal velocity.
maxFallVelocitySlow == 10 * Scale
maxFallVelocity == 12 * Scale
pipeWidth == 40
gapSize == 100
pipeSpeed == 2
pipeSpacing == 200
minGapHeight == 120
scorePerPipe == 1
jumpCooldown == 100
menuBirdStartY == 100
menuBirdFloorY == 150
menuBirdBounce == 5
menuGravity == (3 * Scale) \div 10
FrameMs == 16

\* ------------------------------------------------------------------------
\* Bounds of the model and the sampled environment
\* Math.random() returns k / RandDen for some k in 0 .. RandDen-1.
RandDen == 2
\* At most MaxPipes pipes are generated in one run (pipe ids are 1 .. MaxPipes).
MaxPipes == 3
\* The stored high-score texts read back are those of 0 .. MaxStored, or no number.
MaxStored == 6
\* The Bird on its own: at most MaxIntegrations update() calls from rest, and at
\* most MaxDisturbed calls of jump(), bounce(), reset() and update() after them.
MaxIntegrations == 26
MaxDisturbed == 4
\* The ScoreManager on its own: at most MaxScoreCalls calls.
MaxScoreCalls == 7
\* Subscriptions held at once by an InputHandler exercised on its own.
MaxSubscriptions == 3
\* Frames of a round before the collision that ends it, for the end of a round
\* taken on its own.
MaxFlight == 40

RandomDraws == 0 .. (RandDen - 1)
\* Menu frames at which the decorative-pipe draw Math.random() < 0.01 may succeed
\* (frame 1: the frame right after the one that generated the first pipe).
SpawnFrames == {1}
\* Menu frames at which the player may press start.
StartFrames == {0, 30, 112, 141, 160}
\* Playing frames at which an accepted primary (jump) input may arrive.
JumpFrames == {0, 10, 20, 30}
\* Menu and Ended frames at which an accepted primary input may arrive.
IdleJumpFrames == {0, 20}
\* Frames of the Ended phase at which the player may press restart.
RestartFrames == {0, 3, 60}
\* Playing frames at which the tab may become hidden.
HideFrames == {0, 25}
\* Playing frames up to which the frames of a round are counted.
CountedFrames == {38}
\* Extra time (ms), beyond the frames', read by a primary input's clock.
ClockDeltas == {0, jumpCooldown}

Min(a, b) == IF a < b THEN a ELSE b
Max(a, b) == IF a > b THEN a ELSE b
SetMax(S) == CHOOSE m \in S : \A n \in S : n <= m

MENU == "menu"
PLAYING == "playing"
GAME_OVER == "game_over"
STATES == {MENU, PLAYING, GAME_OVER}
NoPoint == [none |-> TRUE]
\* localStorage.getItem of an absent key (null); a present value is <<string>>.
NoValue == <<>>

\* ------------------------------------------------------------------------
\* Bird (js/bird.js)

NewBird(x, y) ==
    [x |-> x, y |-> y * Scale, velocity |-> 0, rotation |-> 0, targetRotation |-> 0]

Clamp(v, lo, hi) == Min(Max(v, lo), hi)

\* An update that moves the bird by its old velocity before gravity is added.
BirdUpdatePositionFirst(b) ==
    LET y1 == b.y + b.velocity
        v1 == b.velocity + gravity
        v2 == IF v1 > maxFallVelocity THEN maxFallVelocity ELSE v1
        y2 == IF y1 < 0 THEN 0 ELSE y1
        v3 == IF y1 < 0 THEN 0 ELSE v2
        target == Clamp((v3 * 3 * RotScale) \div Scale, (0 - 30) * RotScale, 90 * RotScale)
    IN  [b EXCEPT !.velocity = v3, !.y = y2, !.targetRotation = target,
                  !.rotation = b.rotation + (target - b.rotation) \div 10]

\* An update without the clamp at the top of the screen.
BirdUpdateNoTopClamp(b) ==
    LET v1 == b.velocity + gravity
        v2 == IF v1 > maxFallVelocity THEN maxFallVelocity ELSE v1
        target == Clamp((v2 * 3 * RotScale) \div Scale, (0 - 30) * RotScale, 90 * RotScale)
    IN  [b EXCEPT !.velocity = v2, !.y = b.y + v2, !.targetRotation = target,
                  !.rotation = b.rotation + (target - b.rotation) \div 10]

\* Bird.update: gravity, fall-speed limit, position, top clamp, rotation easing.
BirdUpdate(b) ==
    LET v1 == b.velocity + gravity
        v2 == IF v1 > maxFallVelocity THEN maxFallVelocity ELSE v1
        y1 == b.y + v2
        y2 == IF y1 < 0 THEN 0 ELSE y1
        v3 == IF y1 < 0 THEN 0 ELSE v2
        target == Clamp((v3 * 3 * RotScale) \div Scale, (0 - 30) * RotScale, 90 * RotScale)
    IN  [b EXCEPT !.velocity = v3, !.y = y2, !.targetRotation = target,
                  !.rotation = b.rotation + (target - b.rotation) \div 10]

\* A jump that adds its impulse to the velocity.
BirdJumpAdditive(b) ==
    [b EXCEPT !.velocity = @ + jumpVelocity, !.rotation = (0 - 20) * RotScale]

\* Bird.jump
BirdJump(b) == [b EXCEPT !.velocity = jumpVelocity, !.rotation = (0 - 20) * RotScale]

\* Bird.getBounds
GetBounds(b) ==
    [x |-> b.x - birdWidth \div 2, y |-> b.y - (birdHeight * Scale) \div 2,
     width |-> birdWidth, height |-> birdHeight * Scale]

\* Bird.isGrounded(canvasHeight)
IsGrounded(b, ch) == b.y + (birdHeight * Scale) \div 2 >= (ch - groundHeight) * Scale

\* Bird.isOutOfBounds(canvasHeight)
IsOutOfBounds(b, ch) == b.y - (birdHeight * Scale) \div 2 > ch * Scale

\* A reset that forgets to zero the velocity.
BirdResetKeepingVelocity(b, x, y) ==
    [b EXCEPT !.x = x, !.y = y * Scale, !.rotation = 0, !.targetRotation = 0]

\* Bird.reset(x, y)
BirdReset(b, x, y) ==
    [b EXCEPT !.x = x, !.y = y * Scale, !.velocity = 0, !.rotation = 0, !.targetRotation = 0]

\* Bird.bounce
\* A bounce that also moves the bird by its new velocity.
BirdBounceMoving(b) ==
    [b EXCEPT !.velocity = ((0 - b.velocity) * 3) \div 10,
              !.y = @ + ((0 - b.velocity) * 3) \div 10, !.rotation = 0]
BirdBounce(b) == [b EXCEPT !.velocity = ((0 - b.velocity) * 3) \div 10, !.rotation = 0]

\* ------------------------------------------------------------------------
\* PipeManager (js/pipe.js)

\* A gap drawn from the top of the canvas, without the margin.
GapYNoMargin(k) ==
    (k * (canvasHeight - minGapHeight - gapSize - groundHeight) * Scale) \div RandDen

\* gapY of generatePipe for the draw k / RandDen
GapY(k) ==
    LET minHeight == minGapHeight
        maxHeight == canvasHeight - minGapHeight - gapSize - groundHeight
    IN  minHeight * Scale + (k * (maxHeight - minHeight) * Scale) \div RandDen

\* PipeManager.generatePipe: append a pipe at the right edge.
\* A generatePipe that puts the new pipe in front (unshift instead of push).
GeneratePipePrepending(ps, k, id) ==
    <<[x |-> canvasWidth, gapY |-> GapY(k), scored |-> FALSE, id |-> id]>> \o ps
GeneratePipe(ps, k, id) ==
    Append(ps, [x |-> canvasWidth, gapY |-> GapY(k), scored |-> FALSE, id |-> id])

MovePipes(ps) == [i \in DOMAIN ps |-> [ps[i] EXCEPT !.x = @ - pipeSpeed]]
\* An off-screen test on the pipe's left edge.
OffScreenLeftEdge(p) == p.x < 0
OffScreen(p) == p.x + pipeWidth < 0
KeepPipes(ps) == SelectSeq(ps, LAMBDA p : ~OffScreen(p))
RemovedIds(ps) == {ps[i].id : i \in {j \in DOMAIN ps : OffScreen(ps[j])}}

\* The generation test at the end of PipeManager.update
\* A generation test that already fires at the spacing itself.
NeedsPipeAtSpacing(ps) == Len(ps) = 0 \/ ps[Len(ps)].x <= canvasWidth - pipeSpacing
NeedsPipe(ps) == Len(ps) = 0 \/ ps[Len(ps)].x < canvasWidth - pipeSpacing

\* PipeManager.update without its generation step: move, remove, forget.
AdvancePipes(ps) == KeepPipes(MovePipes(ps))
\* An update that forgets to delete the removed pipes' ids.
AdvanceScoredKeeping(ps, sp) == sp
AdvanceScored(ps, sp) == sp \ RemovedIds(MovePipes(ps))

\* The count of update() calls per pipe: a generated pipe starts at 0, every
\* update() adds 1 to the pipes it moves; a pipe that leaves the field counts 0.
AdvancesAfterGenerate(ag, id) == [ag EXCEPT ![id] = 0]
AdvancesAfterUpdate(ps, ag) ==
    [id \in DOMAIN ag |->
        IF id \in {ps[i].id : i \in DOMAIN ps} \ RemovedIds(MovePipes(ps))
        THEN ag[id] + 1 ELSE 0]
RemovedNow(ps, ag) ==
    {[id |-> id, advances |-> ag[id] + 1] : id \in RemovedIds(MovePipes(ps))}

\* A collision test with a non-strict horizontal overlap.
CheckPipeCollisionTouching(bb, pipe) ==
    /\ bb.x + bb.width >= pipe.x
    /\ bb.x <= pipe.x + pipeWidth
    /\ \/ bb.y < pipe.gapY
       \/ bb.y + bb.height > pipe.gapY + gapSize * Scale

\* PipeManager.checkPipeCollision
CheckPipeCollision(bb, pipe) ==
    /\ bb.x + bb.width > pipe.x
    /\ bb.x < pipe.x + pipeWidth
    /\ \/ bb.y < pipe.gapY
       \/ bb.y + bb.height > pipe.gapY + gapSize * Scale

\* PipeManager.checkCollision
CheckCollision(b, ps) == \E i \in DOMAIN ps : CheckPipeCollision(GetBounds(b), ps[i])

\* A scoring test that ignores the scored-id bookkeeping.
QualifiesIgnoringScored(b, p, sp) == b.x > p.x + pipeWidth

\* PipeManager.checkScore: the pipes that qualify, and the one that is taken.
Qualifies(b, p, sp) == b.x > p.x + pipeWidth /\ p.id \notin sp
QualifyingIndexes(b, ps, sp) == {i \in DOMAIN ps : Qualifies(b, ps[i], sp)}
ScoringIndex(b, ps, sp) ==
    IF QualifyingIndexes(b, ps, sp) = {} THEN 0
    ELSE CHOOSE i \in QualifyingIndexes(b, ps, sp) :
             \A j \in QualifyingIndexes(b, ps, sp) : i <= j
\* A score check that comes after the collision check's early exit.
CheckScoreUnlessColliding(b, ps, sp) ==
    /\ ~(CheckCollision(b, ps) \/ IsGrounded(b, canvasHeight) \/ IsOutOfBounds(b, canvasHeight))
    /\ ScoringIndex(b, ps, sp) # 0
CheckScore(b, ps, sp) == ScoringIndex(b, ps, sp) # 0
\* A checkScore without its break: every qualifying pipe is marked.
ScoredAfterCheckAll(b, ps, sp) ==
    sp \cup {ps[i].id : i \in {j \in DOMAIN ps : b.x > ps[j].x + pipeWidth}}
ScoredAfterCheck(b, ps, sp) ==
    IF CheckScore(b, ps, sp) THEN sp \cup {ps[ScoringIndex(b, ps, sp)].id} ELSE sp

\* ------------------------------------------------------------------------
\* ScoreManager (js/score.js)

\* parseInt(text, 10) of a stored text: the set holding the number the text
\* spells in decimal, sign included, or the empty set (NaN) when it spells
\* none.
ParseInt(text) == {n \in (0 - MaxStored) .. MaxStored : ToString(n) = text}

\* ScoreManager.loadHighScore, as the constructor runs it on highScore = 0:
\* the stored text parsed (|| 0), nothing for an absent key, 0 when getItem
\* throws (readOk = FALSE).
LoadHighScore(store, readOk) ==
    IF ~readOk \/ store = NoValue \/ ParseInt(store[1]) = {} THEN 0
    ELSE CHOOSE n \in ParseInt(store[1]) : TRUE

\* ScoreManager.incrementScore: the score, the test on the high score, the
\* high score.
IncrementedScore(cs) == cs + scorePerPipe
RaisesHighScore(cs, hs) == IncrementedScore(cs) > hs
\* An increment that raises the high score to the score before the increment.
IncrementedHighStale(cs, hs) == IF RaisesHighScore(cs, hs) THEN cs ELSE hs
\* An increment that never raises the high score.
IncrementedHighNever(cs, hs) == hs
IncrementedHigh(cs, hs) == IF RaisesHighScore(cs, hs) THEN IncrementedScore(cs) ELSE hs

\* A saveHighScore that writes nothing.
SaveHighScoreNever(hs, store, writeOk) == store
\* ScoreManager.saveHighScore: the store afterwards (writeOk = FALSE: setItem
\* throws and the catch swallows it).
SaveHighScore(hs, store, writeOk) == IF writeOk THEN <<ToString(hs)>> ELSE store

\* A saveHighScore without its try/catch: a throwing setItem leaves the caller.
SaveReturnsUnlessThrown(writeOk) == writeOk
\* saveHighScore's try/catch: the call returns to its caller, and the frame
\* goes on, whether or not setItem throws.
SaveReturns(writeOk) == TRUE

\* A new-high-score test that wants the high score beaten.
IsNewHighScoreStrict(cs, hs) == cs > hs
\* A new-high-score test whose tie branch counts a score of 0.
IsNewHighScoreInclusive(cs, hs) == cs >= hs
\* ScoreManager.isNewHighScore
IsNewHighScore(cs, hs) == cs > hs \/ (cs = hs /\ cs > 0)

\* ------------------------------------------------------------------------
\* State

VARIABLES
    currentState,      \* GameStateManager.currentState
    collisionPoint,    \* GameStateManager.collisionPoint (NoPoint: null/undefined)
    menuBirdY,         \* GameStateManager.menuBirdY, fixed point
    menuBirdVelocity,  \* GameStateManager.menuBirdVelocity, fixed point
    newHighScoreShown, \* whether the last Ended entry ran celebrateNewHighScore
    bird,              \* the Bird object
    pipes,             \* PipeManager.pipes
    scoredPipes,       \* PipeManager.scoredPipes
    nextId,            \* the id the next generated pipe gets (ids are unique)
    currentScore,      \* ScoreManager.currentScore
    highScore,         \* ScoreManager.highScore
    storedHighScore,   \* localStorage['flappyBirdHighScore'] (NoValue: absent)
    callbacks,         \* InputHandler.callbacks: event -> sequence of subscribers
    sinceLastJump,     \* Date.now() - InputHandler.lastJumpTime, capped at jumpCooldown
    isRunning,         \* Game.isRunning
    loaded,            \* Game.initialize has passed its await and called start()
    errorShown,        \* Game.initialize's catch has run showErrorMessage
    frame,             \* frames run in the current phase (capped), for the sampled inputs
    passed,            \* ids that overlapped the bird's column on a collision-free Playing tick of this round
    menuPassed,        \* ids whose right edge was left of the bird's x at the end of a Menu tick
    timesScored,       \* id -> number of times checkScore has taken that pipe
    lastScored,        \* what the latest frame's checkScore took (id 0: nothing)
    advances,          \* id -> update() calls the pipe has been through while in the field
    lastRemoved,       \* the pipes the latest update() removed, each with its number of advances
    unit               \* the record of a component exercised on its own (NoUnit in the game)

gameVars == <<currentState, collisionPoint, menuBirdY, menuBirdVelocity, newHighScoreShown>>
pipeVars == <<pipes, scoredPipes, nextId>>
scoreVars == <<currentScore, highScore, storedHighScore>>
inputVars == <<callbacks, sinceLastJump>>
hostVars == <<isRunning, loaded, errorShown>>
histVars == <<passed, menuPassed, timesScored, advances>>
vars == <<gameVars, bird, pipeVars, scoreVars, inputVars, hostVars, frame, histVars, lastScored,
          lastRemoved, unit>>

Events == {"jump", "gameStart", "gameRestart"}
GSM == "GameStateManager"
NoScore == [id |-> 0, birdX |-> 0, rightEdge |-> 0, passedBefore |-> FALSE, inMenu |-> FALSE]
NoAdvances == [i \in 1 .. MaxPipes |-> 0]
NoUnit == [of |-> "game", op |-> "none", n |-> 0, first |-> 0, ok |-> TRUE, calls |-> 0]

\* InputHandler.constructor and InputHandler.destroy: three empty lists.
NewCallbacks == [e \in Events |-> <<>>]
DestroyedCallbacks == [e \in Events |-> <<>>]

\* InputHandler.on and InputHandler.off (a name without a list is ignored;
\* off removes the first occurrence).
On(cbs, e, cb) == IF e \in DOMAIN cbs THEN [cbs EXCEPT ![e] = Append(@, cb)] ELSE cbs
IndexOf(list, cb) ==
    IF \E i \in DOMAIN list : list[i] = cb
    THEN CHOOSE i \in DOMAIN list : list[i] = cb /\ \A j \in 1 .. i - 1 : list[j] # cb
    ELSE 0
Off(cbs, e, cb) ==
    IF e \in DOMAIN cbs /\ IndexOf(cbs[e], cb) > 0
    THEN [cbs EXCEPT ![e] = SubSeq(@, 1, IndexOf(@, cb) - 1)
                              \o SubSeq(@, IndexOf(@, cb) + 1, Len(@))]
    ELSE cbs

\* Subscribers of an InputHandler exercised on its own; one of them throws.
Subscribers == {"a", "thrower", "b"}
Throws(cb) == cb = "thrower"

\* What a dispatch does: the callbacks it invoked, in order, the errors it
\* reported with console.error, and whether an exception left it.
NoDispatch == [invoked |-> <<>>, reported |-> 0, threw |-> FALSE]

\* A forEach without the try/catch: the first throwing callback ends it.
RECURSIVE DispatchUncaught(_, _)
DispatchUncaught(list, log) ==
    IF list = <<>> THEN log
    ELSE LET called == [log EXCEPT !.invoked = Append(@, Head(list))]
         IN  IF Throws(Head(list))
             THEN [called EXCEPT !.threw = TRUE]
             ELSE DispatchUncaught(Tail(list), called)
\* The forEach of triggerCallbacks: each callback is called inside a try whose
\* catch reports the error and goes on.
RECURSIVE Dispatch(_, _)
Dispatch(list, log) ==
    IF list = <<>> THEN log
    ELSE LET called == [log EXCEPT !.invoked = Append(@, Head(list))]
         IN  IF Throws(Head(list))
             THEN Dispatch(Tail(list), [called EXCEPT !.reported = @ + 1])
             ELSE Dispatch(Tail(list), called)
\* InputHandler.triggerCallbacks
TriggerCallbacks(cbs, e) ==
    IF e \in DOMAIN cbs THEN Dispatch(cbs[e], NoDispatch) ELSE NoDispatch

\* A reset that leaves lastJumpTime alone.
SinceAfterResetKept(since) == since
\* InputHandler.reset: lastJumpTime = 0, so that Date.now() - lastJumpTime is
\* past any cooldown.
SinceAfterReset(since) == jumpCooldown

\* The sampled frames of a phase, and where its frame counter stops.
SampledFrames(s) ==
    CASE s = MENU -> SpawnFrames \cup StartFrames \cup IdleJumpFrames
      [] s = PLAYING -> JumpFrames \cup HideFrames \cup CountedFrames
      [] OTHER -> RestartFrames \cup IdleJumpFrames
FrameCap(s) == SetMax(SampledFrames(s)) + 1
NextFrame(s, f) == Min(f + 1, FrameCap(s))

\* The state after the constructors of Game.initializeGameObjects have run:
\* Bird(80, 200), PipeManager(320, 568), ScoreManager (empty store),
\* InputHandler, GameStateManager (its three subscriptions registered).
ConstructedWith(b, store, readOk, u, cbs) ==
    /\ currentState = MENU
    /\ collisionPoint = NoPoint
    /\ menuBirdY = menuBirdStartY * Scale
    /\ menuBirdVelocity = 0
    /\ newHighScoreShown = FALSE
    /\ bird = b
    /\ pipes = <<>>
    /\ scoredPipes = {}
    /\ nextId = 1
    /\ currentScore = 0
    /\ highScore = LoadHighScore(store, readOk)
    /\ storedHighScore = store
    /\ callbacks = cbs
    /\ sinceLastJump = jumpCooldown
    /\ isRunning = FALSE
    /\ loaded = FALSE
    /\ errorShown = FALSE
    /\ frame = 0
    /\ passed = {}
    /\ menuPassed = {}
    /\ timesScored = [i \in 1 .. MaxPipes |-> 0]
    /\ lastScored = NoScore
    /\ advances = NoAdvances
    /\ lastRemoved = {}
    /\ unit = u

Constructed(b, store, readOk, u) ==
    ConstructedWith(b, store, readOk, u, [e \in Events |-> <<GSM>>])

\* A first visit: nothing is stored yet.
Init == Constructed(NewBird(startX, startY), NoValue, TRUE, NoUnit)

Subscribed(e) == \E i \in DOMAIN callbacks[e] : callbacks[e][i] = GSM

\* ------------------------------------------------------------------------
\* GameStateManager (js/game-states.js)

\* A collision check that leaves out the ground.
CheckCollisionsNoGround(b, ps) == CheckCollision(b, ps) \/ IsOutOfBounds(b, canvasHeight)

\* GameStateManager.checkCollisions: its result, and the point it records.
CheckCollisions(b, ps) ==
    \/ CheckCollision(b, ps)
    \/ IsGrounded(b, canvasHeight)
    \/ IsOutOfBounds(b, canvasHeight)
\* A check whose ground branch records no point.
RecordedPointPipeOnly(b, ps, cp) ==
    IF CheckCollision(b, ps) THEN [x |-> b.x, y |-> b.y] ELSE cp
RecordedPoint(b, ps, cp) ==
    IF CheckCollision(b, ps) \/ IsGrounded(b, canvasHeight)
    THEN [x |-> b.x, y |-> b.y] ELSE cp

\* Ids of the pipes whose column the bird's box overlaps horizontally.
Overlapping(b, ps) ==
    {ps[i].id : i \in {j \in DOMAIN ps :
        /\ GetBounds(b).x + GetBounds(b).width > ps[j].x
        /\ GetBounds(b).x < ps[j].x + pipeWidth}}
\* Ids of the pipes whose right edge is left of the bird's x.
Behind(b, ps) == {ps[i].id : i \in {j \in DOMAIN ps : b.x > ps[j].x + pipeWidth}}

\* updateMenuState, run on the pipes ps: the preview bird, the decorative draw
\* (spawn: Math.random() < 0.01, gap draw k1) and PipeManager.update (gap draw k2).
MenuFrame(b, ps, sp, mby, mbv, mp, ag, spawn, k1, k2) ==
    LET v1 == mbv + menuGravity
        y1 == mby + v1
        hit == y1 > menuBirdFloorY * Scale
        ps0 == IF spawn THEN GeneratePipe(ps, k1, nextId) ELSE ps
        id1 == IF spawn THEN nextId + 1 ELSE nextId
        ps1 == AdvancePipes(ps0)
        gen == NeedsPipe(ps1)
        ps2 == IF gen THEN GeneratePipe(ps1, k2, id1) ELSE ps1
        id2 == IF gen THEN id1 + 1 ELSE id1
    IN  /\ id2 <= MaxPipes + 1
        /\ menuBirdY' = IF hit THEN menuBirdFloorY * Scale ELSE y1
        /\ menuBirdVelocity' = IF hit THEN (0 - menuBirdBounce) * Scale ELSE v1
        /\ pipes' = ps2
        /\ scoredPipes' = AdvanceScored(ps0, sp)
        /\ nextId' = id2
        /\ menuPassed' = mp \cup Behind(b, ps2)
        /\ advances' = AdvancesAfterUpdate(ps0, IF spawn THEN AdvancesAfterGenerate(ag, nextId) ELSE ag)
        /\ lastRemoved' = RemovedNow(ps0, IF spawn THEN AdvancesAfterGenerate(ag, nextId) ELSE ag)

\* One frame of the loop in Menu: Game.gameLoop -> update -> updateMenuState.
MenuTick ==
    /\ isRunning /\ currentState = MENU
    /\ \E spawn \in BOOLEAN :
         /\ spawn => frame \in SpawnFrames
         /\ \E k1 \in (IF spawn THEN RandomDraws ELSE {0}) :
            \E k2 \in (IF NeedsPipe(AdvancePipes(pipes)) /\ ~spawn THEN RandomDraws ELSE {0}) :
              MenuFrame(bird, pipes, scoredPipes, menuBirdY, menuBirdVelocity, menuPassed,
                        advances, spawn, k1, k2)
    /\ frame' = NextFrame(MENU, frame)
    /\ sinceLastJump' = Min(sinceLastJump + FrameMs, jumpCooldown)
    /\ lastScored' = NoScore
    /\ UNCHANGED <<currentState, collisionPoint, newHighScoreShown, bird, scoreVars,
                   callbacks, hostVars, passed, timesScored, unit>>

\* One frame of the loop in Playing: updatePlayingState, with incrementScore,
\* saveHighScore (writeOk: localStorage.setItem does not throw) and, on a
\* collision, setState(GAME_OVER) with enterGameOverState.
PlayingTick ==
    /\ isRunning /\ currentState = PLAYING
    /\ LET b1 == BirdUpdate(bird)
           ps1 == AdvancePipes(pipes)
           sp1 == AdvanceScored(pipes, scoredPipes)
           gen == NeedsPipe(ps1)
       IN  \E k \in (IF gen THEN RandomDraws ELSE {0}) :
           LET ps2 == IF gen THEN GeneratePipe(ps1, k, nextId) ELSE ps1
               hit == CheckScore(b1, ps2, sp1)
               idx == ScoringIndex(b1, ps2, sp1)
               cs1 == IF hit THEN IncrementedScore(currentScore) ELSE currentScore
               raised == hit /\ RaisesHighScore(currentScore, highScore)
               hs1 == IF hit THEN IncrementedHigh(currentScore, highScore) ELSE highScore
           IN  \E writeOk \in (IF raised THEN BOOLEAN ELSE {TRUE}) :
           LET over == SaveReturns(writeOk) /\ CheckCollisions(b1, ps2)
           IN  /\ gen => nextId <= MaxPipes
               /\ bird' = b1
               /\ pipes' = ps2
               /\ scoredPipes' = ScoredAfterCheck(b1, ps2, sp1)
               /\ nextId' = IF gen THEN nextId + 1 ELSE nextId
               /\ currentScore' = cs1
               /\ highScore' = hs1
               /\ storedHighScore' = IF raised
                                      THEN SaveHighScore(hs1, storedHighScore, writeOk)
                                      ELSE storedHighScore
               /\ currentState' = IF over THEN GAME_OVER ELSE PLAYING
               /\ collisionPoint' = RecordedPoint(b1, ps2, collisionPoint)
               /\ newHighScoreShown' =
                    IF over THEN IsNewHighScore(cs1, hs1) ELSE newHighScoreShown
               /\ frame' = IF over THEN 0 ELSE NextFrame(PLAYING, frame)
               /\ passed' = IF over THEN passed ELSE passed \cup Overlapping(b1, ps2)
               /\ timesScored' = IF hit THEN [timesScored EXCEPT ![ps2[idx].id] = @ + 1]
                                 ELSE timesScored
               /\ lastScored' =
                    IF hit THEN [id |-> ps2[idx].id, birdX |-> b1.x,
                                 rightEdge |-> ps2[idx].x + pipeWidth,
                                 passedBefore |-> ps2[idx].id \in passed,
                                 inMenu |-> ps2[idx].id \in menuPassed]
                    ELSE NoScore
    /\ advances' = AdvancesAfterUpdate(pipes, advances)
    /\ lastRemoved' = RemovedNow(pipes, advances)
    /\ sinceLastJump' = Min(sinceLastJump + FrameMs, jumpCooldown)
    /\ UNCHANGED <<menuBirdY, menuBirdVelocity, callbacks, hostVars, menuPassed, unit>>

\* An Ended frame that keeps the pipes moving.
GameOverTickMovingPipes ==
    /\ isRunning /\ currentState = GAME_OVER
    /\ bird' = IF ~IsGrounded(bird, canvasHeight) THEN BirdUpdate(bird) ELSE BirdBounce(bird)
    /\ pipes' = MovePipes(pipes)
    /\ frame' = NextFrame(GAME_OVER, frame)
    /\ sinceLastJump' = Min(sinceLastJump + FrameMs, jumpCooldown)
    /\ lastScored' = NoScore
    /\ lastRemoved' = {}
    /\ UNCHANGED <<gameVars, scoredPipes, nextId, scoreVars, callbacks, hostVars, histVars, unit>>

\* One frame of the loop in Ended: updateGameOverState.
GameOverTick ==
    /\ isRunning /\ currentState = GAME_OVER
    /\ bird' = IF ~IsGrounded(bird, canvasHeight) THEN BirdUpdate(bird) ELSE BirdBounce(bird)
    /\ frame' = NextFrame(GAME_OVER, frame)
    /\ sinceLastJump' = Min(sinceLastJump + FrameMs, jumpCooldown)
    /\ lastScored' = NoScore
    /\ lastRemoved' = {}
    /\ UNCHANGED <<gameVars, pipeVars, scoreVars, callbacks, hostVars, histVars, unit>>

\* Game.gameLoop: one animation frame.
Tick == MenuTick \/ PlayingTick \/ GameOverTick

\* enterPlayingState (resetScore) as run by setState(PLAYING).
EnterPlayingState ==
    /\ currentState' = PLAYING
    /\ currentScore' = 0
    /\ frame' = 0
    /\ passed' = {}

\* A 'gameStart' subscriber without its state test.
GameStartGuardAnyPhase == TRUE

\* The state tests of the three subscribers of setupInputCallbacks.
GameStartGuard == currentState = MENU
GameRestartGuard == currentState = GAME_OVER
\* A 'jump' subscriber without its state test.
JumpGuardAnyPhase == TRUE
JumpGuard == currentState = PLAYING

\* A startGame that resets the pipes as restartGame does.
StartGameResettingPipes ==
    /\ EnterPlayingState
    /\ pipes' = <<>>
    /\ scoredPipes' = {}
    /\ UNCHANGED <<collisionPoint, menuBirdY, menuBirdVelocity, newHighScoreShown,
                   bird, nextId, highScore, storedHighScore, inputVars, hostVars,
                   menuPassed, timesScored, advances>>

\* startGame: setState(PLAYING).
StartGame ==
    /\ EnterPlayingState
    /\ UNCHANGED <<collisionPoint, menuBirdY, menuBirdVelocity, newHighScoreShown,
                   bird, pipeVars, highScore, storedHighScore, inputVars, hostVars,
                   menuPassed, timesScored, advances>>

\* PipeManager.reset: the emptied collection and bookkeeping.
ResetPipes == <<>>
ResetScoredPipes == {}

\* restartGame: resetGameObjects, then setState(PLAYING).
RestartGame ==
    /\ bird' = BirdReset(bird, startX, startY)
    /\ pipes' = ResetPipes
    /\ scoredPipes' = ResetScoredPipes
    /\ collisionPoint' = NoPoint
    /\ advances' = NoAdvances
    /\ EnterPlayingState
    /\ UNCHANGED <<menuBirdY, menuBirdVelocity, newHighScoreShown, nextId,
                   highScore, storedHighScore, inputVars, hostVars,
                   menuPassed, timesScored>>

\* Nothing but the record of the latest frame's scoring changes.
NoEffect ==
    UNCHANGED <<gameVars, bird, pipeVars, scoreVars, inputVars, hostVars, frame, histVars>>

\* triggerCallbacks('gameStart'): the overlay click or Enter key while the start
\* screen shows.  Input arrives once the game has loaded.
GameStartEvent ==
    /\ loaded
    /\ lastScored' = NoScore
    /\ lastRemoved' = {}
    /\ unit' = unit
    /\ IF Subscribed("gameStart") /\ GameStartGuard
       THEN frame \in StartFrames /\ StartGame
       ELSE NoEffect

\* triggerCallbacks('gameRestart'): the R key, or the overlay on the game-over screen.
GameRestartEvent ==
    /\ loaded
    /\ lastScored' = NoScore
    /\ lastRemoved' = {}
    /\ unit' = unit
    /\ IF Subscribed("gameRestart") /\ GameRestartGuard
       THEN frame \in RestartFrames /\ RestartGame
       ELSE NoEffect

\* handleJump's cooldown test for a clock reading dt ms after the last frame.
Elapsed(dt) == Min(sinceLastJump + dt, jumpCooldown)
\* A handleJump that records the time of a refused event too.
SinceAfterRefusalRestarted(since) == 0
\* handleJump's early return: lastJumpTime stays, so the time since it is the
\* one the refused event read.
SinceAfterRefusal(since) == since
\* A cooldown test that still refuses at exactly the cooldown.
OnCooldownInclusive(dt) == Elapsed(dt) <= jumpCooldown
OnCooldown(dt) == Elapsed(dt) < jumpCooldown

\* InputHandler.handleJump: the cooldown test, then triggerCallbacks('jump'),
\* whose subscriber makes the bird jump while Playing.
PrimaryEvent ==
    /\ loaded
    /\ lastScored' = NoScore
    /\ lastRemoved' = {}
    /\ unit' = unit
    /\ \E dt \in ClockDeltas :
        IF OnCooldown(dt)
        THEN /\ sinceLastJump' = SinceAfterRefusal(Elapsed(dt))
             /\ UNCHANGED <<gameVars, bird, pipeVars, scoreVars, callbacks, hostVars,
                            frame, histVars>>
        ELSE /\ frame \in (IF currentState = PLAYING THEN JumpFrames ELSE IdleJumpFrames)
             /\ sinceLastJump' = 0
             /\ bird' = IF Subscribed("jump") /\ JumpGuard THEN BirdJump(bird) ELSE bird
             /\ UNCHANGED <<gameVars, pipeVars, scoreVars, callbacks, hostVars,
                            frame, histVars>>

\* ------------------------------------------------------------------------
\* Game, the host loop (js/game.js)

\* The methods class Game defines, and the one start() calls last, after
\* gameLoop(): calling a method the class does not define throws a TypeError.
GameMethods ==
    {"initializeWhenReady", "initialize", "setupCanvas", "initializeGameObjects",
     "loadAssets", "start", "gameLoop", "update", "render", "updateFPS",
     "renderDebugInfo", "setupPerformanceMonitor", "updatePerformanceMonitor", "stop",
     "cleanup", "restart", "showErrorMessage", "handleVisibilityChange", "handleResize",
     "getStats"}
StartLastCall == "setupPerformanceMonitoring"
StartThrows == StartLastCall \notin GameMethods

\* Game.start: setState(MENU) with enterMenuState and resetGameObjects, then
\* gameLoop(), which runs the first frame at once.
GameStart ==
    /\ ~isRunning
    /\ isRunning' = TRUE
    /\ currentState' = MENU
    /\ bird' = BirdReset(bird, startX, startY)
    /\ currentScore' = 0
    /\ collisionPoint' = NoPoint
    /\ \E spawn \in BOOLEAN :
         /\ spawn => 0 \in SpawnFrames
         /\ \E k1 \in (IF spawn THEN RandomDraws ELSE {0}) :
            \E k2 \in (IF ~spawn THEN RandomDraws ELSE {0}) :
              MenuFrame(bird', <<>>, {}, menuBirdStartY * Scale, 0, {}, NoAdvances, spawn, k1, k2)
    /\ frame' = 1
    /\ passed' = {}
    /\ sinceLastJump' = Min(sinceLastJump + FrameMs, jumpCooldown)
    /\ lastScored' = NoScore
    /\ UNCHANGED <<newHighScoreShown, highScore, storedHighScore, callbacks, timesScored, unit>>

\* Game.initialize after its await: start(), inside the try whose catch runs
\* showErrorMessage when start() throws.  (Visibility changes are taken to
\* arrive only after this, so start() finds the loop not yet running.)
InitializeResume ==
    /\ ~loaded
    /\ loaded' = TRUE
    /\ GameStart
    /\ errorShown' = StartThrows

\* Game.stop with cleanup: InputHandler.destroy empties the subscriber lists.
GameStop ==
    /\ isRunning' = FALSE
    /\ callbacks' = DestroyedCallbacks

\* Game.handleVisibilityChange with document.hidden = hidden.
VisibilityChange ==
    /\ loaded
    /\ \E hidden \in BOOLEAN :
        IF hidden
        THEN IF currentState = PLAYING /\ isRunning
             THEN /\ frame \in HideFrames
                  /\ GameStop
                  /\ lastScored' = NoScore
                  /\ lastRemoved' = {}
                  /\ unit' = unit
                  /\ UNCHANGED <<gameVars, bird, pipeVars, scoreVars, sinceLastJump,
                                 loaded, errorShown, frame, histVars>>
             ELSE UNCHANGED vars
        ELSE IF ~isRunning
             THEN GameStart /\ UNCHANGED <<loaded, errorShown>>
             ELSE UNCHANGED vars

Next ==
    \/ Tick
    \/ GameStartEvent
    \/ GameRestartEvent
    \/ PrimaryEvent
    \/ InitializeResume
    \/ VisibilityChange

Spec == Init /\ [][Next]_vars

\* ------------------------------------------------------------------------
\* Rounds without input: the game with its loop, its start and its restart
\* events, to which no primary event is delivered and whose tab stays
\* visible.  unit.op tells how the current round began.

RoundUnit(op) == [NoUnit EXCEPT !.of = "round", !.op = op]
RoundInit == Constructed(NewBird(startX, startY), NoValue, TRUE, RoundUnit("none"))

RoundStart ==
    /\ loaded /\ Subscribed("gameStart") /\ GameStartGuard
    /\ frame \in StartFrames
    /\ StartGame
    /\ lastScored' = NoScore
    /\ lastRemoved' = {}
    /\ unit' = RoundUnit("start")

RoundRestart ==
    /\ loaded /\ Subscribed("gameRestart") /\ GameRestartGuard
    /\ frame \in RestartFrames
    /\ RestartGame
    /\ lastScored' = NoScore
    /\ lastRemoved' = {}
    /\ unit' = RoundUnit("restart")

RoundNext == InitializeResume \/ Tick \/ RoundStart \/ RoundRestart
RoundSpec == RoundInit /\ [][RoundNext]_vars

\* ------------------------------------------------------------------------
\* The end of a round on its own: the game at the frame whose collision check
\* ended a round of n frames in which the player jumped at most once, after
\* frame m, and the bird flew either into the ground or into a pipe whose
\* column it had just reached (x = 88: the frame before, at x = 90, the box
\* did not overlap it).  From there the loop runs on (every frame of gameLoop requests
\* the next one while isRunning), primary and start events may arrive, and no
\* restart event does.

RECURSIVE Updates(_, _)
Updates(b, n) == IF n = 0 THEN b ELSE BirdUpdate(Updates(b, n - 1))
Flight(m, n) ==
    IF n <= m THEN Updates(NewBird(startX, startY), n)
    ELSE Updates(BirdJump(Updates(NewBird(startX, startY), m)), n - m)
FlightJumps == {0, 20, MaxFlight}
EndedPipeXs == {88, 200}
EndedUnit == [NoUnit EXCEPT !.of = "ended"]

EndedInit ==
    \E m \in FlightJumps : \E n \in 1 .. MaxFlight : \E x \in EndedPipeXs : \E k \in RandomDraws :
        LET b == Flight(m, n)
            ps == <<[x |-> x, gapY |-> GapY(k), scored |-> FALSE, id |-> 1]>>
        IN  /\ \A j \in 0 .. n - 1 : ~IsGrounded(Flight(m, j), canvasHeight)
            /\ CheckCollisions(b, ps)
            /\ currentState = GAME_OVER
            /\ collisionPoint = RecordedPoint(b, ps, NoPoint)
            /\ menuBirdY = menuBirdStartY * Scale
            /\ menuBirdVelocity = 0
            /\ newHighScoreShown = IsNewHighScore(0, 0)
            /\ bird = b
            /\ pipes = ps
            /\ scoredPipes = {}
            /\ nextId = 2
            /\ currentScore = 0
            /\ highScore = 0
            /\ storedHighScore = NoValue
            /\ callbacks = [e \in Events |-> <<GSM>>]
            /\ sinceLastJump = Min(n * FrameMs, jumpCooldown)
            /\ isRunning = TRUE
            /\ loaded = TRUE
            /\ errorShown = StartThrows
            /\ frame = 0
            /\ passed = {}
            /\ menuPassed = {}
            /\ timesScored = [i \in 1 .. MaxPipes |-> 0]
            /\ lastScored = NoScore
            /\ advances = [NoAdvances EXCEPT ![1] = (canvasWidth - x) \div pipeSpeed]
            /\ lastRemoved = {}
            /\ unit = EndedUnit

EndedNext == GameOverTick \/ PrimaryEvent \/ GameStartEvent
EndedSpec == EndedInit /\ [][EndedNext]_vars /\ WF_vars(GameOverTick)

\* ------------------------------------------------------------------------
\* The InputHandler on its own (js/input.js): on(), off(), handleJump(),
\* triggerCallbacks(), reset() and destroy() called in any order on a new
\* handler, with the clock moving between the calls.  unit.op is the latest
\* call and unit.log what its dispatch did; unit.last is the outcome of the
\* latest primary event, unit.prev that of the one before and unit.elapsed
\* the time since the last accepted one, as that event found them;
\* unit.sinceAccepted is the time by the clock since the last accepted primary
\* event (capped at jumpCooldown), unit.resetSince tells that reset() has
\* been called since.

InputEvents == Events \cup {"pause"}
WaitMs == {60, jumpCooldown}
InputUnit ==
    [of |-> "input", op |-> "new", log |-> NoDispatch, last |-> "none", prev |-> "none",
     elapsed |-> 0, sinceAccepted |-> jumpCooldown, resetSince |-> FALSE]
InputInit == ConstructedWith(NewBird(startX, startY), NoValue, TRUE, InputUnit, NewCallbacks)

InputOnly ==
    UNCHANGED <<gameVars, bird, pipeVars, scoreVars, hostVars, frame, histVars,
                lastScored, lastRemoved>>
InputCall(op) ==
    [unit EXCEPT !.op = op, !.log = NoDispatch, !.prev = "none", !.elapsed = 0]
Subscriptions == Len(callbacks["jump"]) + Len(callbacks["gameStart"]) + Len(callbacks["gameRestart"])

InputOn ==
    /\ Subscriptions < MaxSubscriptions
    /\ \E e \in InputEvents : \E cb \in Subscribers : callbacks' = On(callbacks, e, cb)
    /\ unit' = InputCall("on")
    /\ UNCHANGED sinceLastJump
    /\ InputOnly

InputOff ==
    /\ \E e \in InputEvents : \E cb \in Subscribers : callbacks' = Off(callbacks, e, cb)
    /\ unit' = InputCall("off")
    /\ UNCHANGED sinceLastJump
    /\ InputOnly

InputWait ==
    /\ \E d \in WaitMs :
         /\ sinceLastJump' = Min(sinceLastJump + d, jumpCooldown)
         /\ unit' = [InputCall("wait") EXCEPT !.sinceAccepted = Min(@ + d, jumpCooldown)]
    /\ UNCHANGED callbacks
    /\ InputOnly

\* handleJump at the current clock reading.
InputPrimary ==
    /\ IF OnCooldown(0)
       THEN /\ unit' = [unit EXCEPT !.op = "primary", !.log = NoDispatch,
                                     !.last = "rejected", !.prev = unit.last,
                                     !.elapsed = unit.sinceAccepted]
            /\ sinceLastJump' = SinceAfterRefusal(sinceLastJump)
       ELSE /\ unit' = [unit EXCEPT !.op = "primary",
                                     !.log = TriggerCallbacks(callbacks, "jump"),
                                     !.last = "accepted", !.prev = unit.last,
                                     !.elapsed = unit.sinceAccepted,
                                     !.sinceAccepted = 0, !.resetSince = FALSE]
            /\ sinceLastJump' = 0
    /\ UNCHANGED callbacks
    /\ InputOnly

InputTrigger(e) ==
    /\ unit' = [InputCall("trigger") EXCEPT !.log = TriggerCallbacks(callbacks, e)]
    /\ UNCHANGED <<callbacks, sinceLastJump>>
    /\ InputOnly

InputReset ==
    /\ sinceLastJump' = SinceAfterReset(sinceLastJump)
    /\ unit' = [InputCall("reset") EXCEPT !.resetSince = TRUE]
    /\ UNCHANGED callbacks
    /\ InputOnly

InputDestroy ==
    /\ callbacks' = DestroyedCallbacks
    /\ unit' = InputCall("destroy")
    /\ UNCHANGED sinceLastJump
    /\ InputOnly

InputNext ==
    \/ InputOn
    \/ InputOff
    \/ InputWait
    \/ InputPrimary
    \/ \E e \in InputEvents : InputTrigger(e)
    \/ InputReset
    \/ InputDestroy
InputSpec == InputInit /\ [][InputNext]_vars

\* ------------------------------------------------------------------------
\* The Bird on its own: update(), jump(), bounce() and reset() called in any
\* order on a bird constructed at rest at (startX, y0).  unit.n counts the
\* update() calls since the bird was last at rest, unit.ok tells that only
\* update() has been called since, unit.calls counts the other calls.

BirdStartYs == {0, 3, startY}
BirdUnit(y0) == [of |-> "bird", op |-> "new", n |-> 0, first |-> y0, ok |-> TRUE, calls |-> 0]
BirdInit == \E y0 \in BirdStartYs : Constructed(NewBird(startX, y0), NoValue, TRUE, BirdUnit(y0))

BirdOnly ==
    UNCHANGED <<gameVars, pipeVars, scoreVars, inputVars, hostVars, frame, histVars,
                lastScored, lastRemoved>>

BirdIntegrate ==
    /\ IF unit.ok THEN unit.n < MaxIntegrations ELSE unit.calls < MaxDisturbed
    /\ bird' = BirdUpdate(bird)
    /\ unit' = IF unit.ok THEN [unit EXCEPT !.op = "update", !.n = @ + 1]
                ELSE [unit EXCEPT !.op = "update", !.calls = @ + 1]
    /\ BirdOnly

BirdApplyJump ==
    /\ unit.calls < MaxDisturbed
    /\ bird' = BirdJump(bird)
    /\ unit' = [unit EXCEPT !.op = IF unit.op \in {"jump", "jump again"}
                                   THEN "jump again" ELSE "jump",
                            !.ok = FALSE, !.calls = @ + 1]
    /\ BirdOnly

BirdSettle ==
    /\ unit.calls < MaxDisturbed
    /\ bird' = BirdBounce(bird)
    /\ unit' = [unit EXCEPT !.op = "bounce", !.ok = FALSE, !.calls = @ + 1]
    /\ BirdOnly

BirdResetCall ==
    /\ unit.calls < MaxDisturbed
    /\ \E y0 \in BirdStartYs :
         /\ bird' = BirdReset(bird, startX, y0)
         /\ unit' = [unit EXCEPT !.op = "reset", !.n = 0, !.first = y0, !.ok = TRUE,
                                 !.calls = @ + 1]
    /\ BirdOnly

BirdNext == BirdIntegrate \/ BirdApplyJump \/ BirdSettle \/ BirdResetCall
BirdSpec == BirdInit /\ [][BirdNext]_vars

\* ------------------------------------------------------------------------
\* The ScoreManager on its own: constructed over a store that holds one of
\* StoredTexts or nothing (readOk: getItem does not throw), then
\* incrementScore(), resetScore() and isNewHighScore() called in any order.
\* unit.n counts the increments since construction or the last reset,
\* unit.first is the high score at that moment, unit.ok tells that the last
\* access to the store did not throw.

StoredTexts == {"0", "2", "5", "6", "abc"}
StoreContents == {NoValue} \cup {<<t>> : t \in StoredTexts}
ScoreUnit(hs, readOk) ==
    [of |-> "score", op |-> "new", n |-> 0, first |-> hs, ok |-> readOk, calls |-> 0]
ScoreInit ==
    \E store \in StoreContents : \E readOk \in BOOLEAN :
        Constructed(NewBird(startX, startY), store, readOk,
                    ScoreUnit(LoadHighScore(store, readOk), readOk))

ScoreOnly ==
    UNCHANGED <<currentState, collisionPoint, menuBirdY, menuBirdVelocity, bird, pipeVars,
                inputVars, hostVars, frame, histVars, lastScored, lastRemoved>>

ScoreIncrement ==
    /\ unit.calls < MaxScoreCalls
    /\ currentScore' = IncrementedScore(currentScore)
    /\ highScore' = IncrementedHigh(currentScore, highScore)
    /\ \E writeOk \in (IF RaisesHighScore(currentScore, highScore) THEN BOOLEAN ELSE {TRUE}) :
         /\ storedHighScore' = IF RaisesHighScore(currentScore, highScore)
                               THEN SaveHighScore(highScore', storedHighScore, writeOk)
                               ELSE storedHighScore
         /\ unit' = [unit EXCEPT !.op = "increment", !.n = @ + 1, !.ok = writeOk,
                                 !.calls = @ + 1]
    /\ UNCHANGED newHighScoreShown
    /\ ScoreOnly

ScoreReset ==
    /\ unit.calls < MaxScoreCalls
    /\ currentScore' = 0
    /\ unit' = [unit EXCEPT !.op = "reset", !.n = 0, !.first = highScore, !.ok = TRUE,
                            !.calls = @ + 1]
    /\ UNCHANGED <<highScore, storedHighScore, newHighScoreShown>>
    /\ ScoreOnly

\* isNewHighScore(), its answer kept where enterGameOverState keeps it.
ScoreAsk ==
    /\ unit.calls < MaxScoreCalls
    /\ newHighScoreShown' = IsNewHighScore(currentScore, highScore)
    /\ unit' = [unit EXCEPT !.op = "ask", !.ok = TRUE, !.calls = @ + 1]
    /\ UNCHANGED scoreVars
    /\ ScoreOnly

ScoreNext == ScoreIncrement \/ ScoreReset \/ ScoreAsk
ScoreSpec == ScoreInit /\ [][ScoreNext]_vars

\* The same ScoreManager constructed over a store that may also hold the
\* text of a negative number: setItem takes any string, and another script of
\* the page or the user can have written the key.
AnyStoredTexts == StoredTexts \cup {"-3"}
LoadInit ==
    \E store \in {NoValue} \cup {<<t>> : t \in AnyStoredTexts} : \E readOk \in BOOLEAN :
        Constructed(NewBird(startX, startY), store, readOk,
                    ScoreUnit(LoadHighScore(store, readOk), readOk))
LoadSpec == LoadInit /\ [][ScoreNext]_vars

\* ------------------------------------------------------------------------
\* Properties

\* The collision condition written out on the bird's centre (x, y): its box
\* is [x - 10, x + 10] x [y - 10, y + 10].
BoxHitsPipe(b, p) ==
    /\ (b.x - 10) + 20 > p.x
    /\ (b.x - 10) < p.x + 40
    /\ \/ b.y - 10 * Scale < p.gapY
       \/ (b.y - 10 * Scale) + 20 * Scale > p.gapY + 100 * Scale
BoxHitsSomePipe(b, ps) == \E i \in DOMAIN ps : BoxHitsPipe(b, ps[i])

InputOrTick == Tick \/ GameStartEvent \/ GameRestartEvent \/ PrimaryEvent

\* C1: the phase starts at Menu, and a frame or an input event changes it only
\* by Menu -> Playing on a start event, Playing -> Ended on a frame whose
\* collision check is true, and Ended -> Playing on a restart event; a start
\* event outside Menu, a restart event outside Ended and a primary event in any
\* phase leave it as it is.
C1_PhaseStep ==
    \/ currentState' = currentState
    \/ currentState = MENU /\ currentState' = PLAYING /\ GameStartEvent
    \/ /\ currentState = PLAYING /\ currentState' = GAME_OVER /\ PlayingTick
       /\ (BoxHitsSomePipe(bird', pipes') \/ IsGrounded(bird', canvasHeight)
             \/ IsOutOfBounds(bird', canvasHeight))
    \/ currentState = GAME_OVER /\ currentState' = PLAYING /\ GameRestartEvent
C1_PhaseTransitions ==
    /\ currentState = MENU
    /\ [][InputOrTick =>
            /\ C1_PhaseStep
            /\ PrimaryEvent => currentState' = currentState
            /\ (GameStartEvent /\ currentState # MENU) => currentState' = currentState
            /\ (GameRestartEvent /\ currentState # GAME_OVER) => currentState' = currentState
         ]_vars
\* A round begun by restart: Menu -> Playing -> Ended -> Playing has been run.
C1_Witness ==
    currentState = PLAYING /\ pipes = <<>> /\ nextId > 1 /\ isRunning

\* C2: a restart event delivered in Ended leaves the phase Playing, the bird at
\* (80, 200) with velocity 0 and rotation 0, the pipes and the scored ids empty,
\* currentScore 0 and the collision point cleared, and highScore as it was.
C2_RestartFresh ==
    [][(GameRestartEvent /\ currentState = GAME_OVER) =>
            /\ currentState' = PLAYING
            /\ bird'.x = 80 /\ bird'.y = 200 * Scale
            /\ bird'.velocity = 0 /\ bird'.rotation = 0
            /\ pipes' = <<>> /\ scoredPipes' = {}
            /\ currentScore' = 0
            /\ collisionPoint' = NoPoint
            /\ highScore' = highScore
      ]_vars
\* Right after a restart that followed a round with a point scored.
C2_Witness ==
    /\ currentState = PLAYING /\ frame = 0 /\ pipes = <<>> /\ scoredPipes = {}
    /\ currentScore = 0 /\ highScore >= 1 /\ bird = NewBird(80, 200)

\* C3: a start event delivered in Menu (to the registered subscriber) moves the
\* phase to Playing and sets currentScore to 0, and leaves the pipes, the scored
\* ids, the bird and highScore as they were.
C3_StartKeepsField ==
    [][(GameStartEvent /\ currentState = MENU /\ Subscribed("gameStart")) =>
            /\ currentState' = PLAYING
            /\ currentScore' = 0
            /\ pipes' = pipes /\ scoredPipes' = scoredPipes
            /\ bird' = bird
            /\ highScore' = highScore
      ]_vars
\* Right after a start from a Menu that holds two pipes.
C3_Witness ==
    currentState = PLAYING /\ frame = 0 /\ Len(pipes) >= 2 /\ currentScore = 0

\* C4: whenever the loop is running, the start, restart and jump subscriptions
\* of the GameStateManager are registered (so that some input leads to Playing).
C4_SubscribedWhileRunning ==
    isRunning => \A e \in Events : Subscribed(e)

\* C5: a Playing frame ends in Ended exactly when, after the bird has been
\* updated and the pipes advanced, the bird's box hits a pipe, or the bird is
\* grounded (y + height/2 >= canvasHeight - 50), or it is out of bounds;
\* otherwise the phase stays Playing.
C5_EndedIffCollision ==
    [][PlayingTick =>
            /\ currentState' \in {PLAYING, GAME_OVER}
            /\ currentState' = GAME_OVER <=>
                 \/ BoxHitsSomePipe(bird', pipes')
                 \/ bird'.y + (birdHeight * Scale) \div 2 >= (canvasHeight - 50) * Scale
                 \/ bird'.y - (birdHeight * Scale) \div 2 > canvasHeight * Scale
      ]_vars
\* A round that a pipe, not the ground, has just ended.
C5_Witness ==
    /\ currentState = GAME_OVER /\ frame = 0
    /\ BoxHitsSomePipe(bird, pipes) /\ ~IsGrounded(bird, canvasHeight)

\* C6: checkCollision is true exactly when some pipe's column strictly overlaps
\* the bird's box horizontally and the box reaches above gapY or below
\* gapY + gapSize.
C6_CollisionCondition ==
    CheckCollision(bird, pipes) <=> BoxHitsSomePipe(bird, pipes)
\* The bird is inside a pipe's column and inside its gap while Playing.
C6_Witness ==
    currentState = PLAYING /\ Overlapping(bird, pipes) # {} /\ ~CheckCollision(bird, pipes)

\* C7: every point is for a pipe that, on an earlier frame of the same round,
\* overlapped the bird's column without a collision being detected.
C7_ScoredAfterPassing ==
    lastScored.id # 0 => lastScored.passedBefore

\* C8: Menu pipes do not interact with scoring: a pipe whose right edge was
\* left of the bird's x during Menu never yields a point after the start.
\* (MenuTick itself leaves currentScore, highScore and the scored ids of the
\* pipes in the field as they are; the points come on the frames after.)
C8_MenuPipesNeverScore ==
    lastScored.id # 0 => ~lastScored.inMenu

\* C9: one frame's checkScore takes at most one pipe: if some unscored pipe has
\* its right edge left of the bird's x, the first such pipe in storage order is
\* marked and currentScore rises by 1, and no other pipe is marked; if none,
\* nothing is marked and currentScore stays.
C9_Unscored == {i \in DOMAIN pipes' : bird'.x > pipes'[i].x + 40 /\ pipes'[i].id \notin scoredPipes}
C9_OnePerFrame ==
    [][PlayingTick =>
            IF C9_Unscored = {}
            THEN scoredPipes' \subseteq scoredPipes /\ currentScore' = currentScore
            ELSE /\ \E i \in C9_Unscored :
                      /\ \A j \in C9_Unscored : i <= j
                      /\ scoredPipes' \ scoredPipes = {pipes'[i].id}
                 /\ currentScore' = currentScore + 1
      ]_vars
\* A frame has just taken one pipe while another one still qualifies.
C9_Witness ==
    /\ currentState = PLAYING /\ lastScored.id # 0
    /\ \E i \in DOMAIN pipes : Qualifies(bird, pipes[i], scoredPipes)

\* C10: no pipe is taken by checkScore more than once from its generation to
\* its removal, and a pipe is taken only on a frame where the bird's x is
\* strictly greater than the pipe's right edge.
C10_ScoredOnce ==
    /\ \A id \in DOMAIN timesScored : timesScored[id] <= 1
    /\ lastScored.id # 0 => lastScored.birdX > lastScored.rightEdge
\* Frames after its scoring, a scored pipe is still in the field behind the bird.
C10_Witness ==
    /\ currentState = PLAYING /\ frame >= 5 /\ lastScored.id = 0
    /\ \E i \in DOMAIN pipes :
         /\ pipes[i].id \in scoredPipes /\ timesScored[pipes[i].id] = 1
         /\ pipes[i].x + pipeWidth < bird.x - 6

\* C11: k calls of incrementScore from currentScore = 0 give currentScore = k
\* and highScore = max(k, the high score before them), for every k >= 0.
C11_IncrementCounts ==
    /\ currentScore = unit.n
    /\ highScore = Max(unit.n, unit.first)
\* Three increments over a loaded high score of 2.
C11_Witness ==
    unit.op = "increment" /\ unit.n = 3 /\ unit.first = 2 /\ highScore = 3

\* C12: in every state reached through frames and start and restart events,
\* and so after every incrementScore, highScore >= currentScore.
C12_HighNotBelow == highScore >= currentScore
\* The frame's increment has just raised the score, and the high score, to 2.
C12_Witness ==
    lastScored.id # 0 /\ currentScore = 2 /\ highScore = 2

\* C13: isNewHighScore answers true exactly when currentScore > highScore, or
\* currentScore = highScore and currentScore > 0; (5, 5) gives true, (5, 6) and
\* (0, 0) give false; the call changes neither score nor the store.
C13_Answer == currentScore > highScore \/ (currentScore = highScore /\ currentScore > 0)
C13_NewBest ==
    /\ [](unit.op = "ask" =>
            /\ newHighScoreShown <=> C13_Answer
            /\ (currentScore = 5 /\ highScore = 5) => newHighScoreShown
            /\ (currentScore = 5 /\ highScore = 6) => ~newHighScoreShown
            /\ (currentScore = 0 /\ highScore = 0) => ~newHighScoreShown)
    /\ [][ScoreAsk => UNCHANGED <<currentScore, highScore, storedHighScore>>]_vars
\* The question asked at (5, 5).
C13_Witness ==
    unit.op = "ask" /\ currentScore = 5 /\ highScore = 5 /\ newHighScoreShown

\* C14: a load whose getItem throws gives highScore 0, whatever the store
\* holds; a Playing frame whose setItem throws still raises currentScore and
\* highScore, leaves the store as it was, and ends in Ended exactly when its
\* collision check is true.
C14_WriteThrew ==
    PlayingTick /\ highScore' # highScore /\ storedHighScore' # <<ToString(highScore')>>
C14_FailuresSwallowed ==
    /\ [](LoadHighScore(storedHighScore, FALSE) = 0)
    /\ [][C14_WriteThrew =>
            /\ currentScore' = currentScore + scorePerPipe
            /\ highScore' = currentScore'
            /\ storedHighScore' = storedHighScore
            /\ currentState' \in {PLAYING, GAME_OVER}
            /\ currentState' = GAME_OVER <=> CheckCollisions(bird', pipes')
         ]_vars
\* A second point whose write threw, after a first one that was stored.
C14_Witness ==
    highScore = 2 /\ currentScore = 2 /\ storedHighScore = <<"1">>

\* C15: n update() calls on a bird at rest at y0, with no jump, give velocity
\* min(n * 0.5, 12) and y = y0 + the sum of the n velocities; for y0 = 200 and
\* n = 5: velocity 2.5 and y 207.5.
RECURSIVE FallSum(_)
FallSum(n) == IF n = 0 THEN 0 ELSE FallSum(n - 1) + Min(n * (Scale \div 2), 12 * Scale)
C15_ForwardEuler ==
    unit.ok =>
        /\ bird.velocity = Min(unit.n * (Scale \div 2), 12 * Scale)
        /\ bird.y = unit.first * Scale + FallSum(unit.n)
        /\ (unit.first = 200 /\ unit.n = 5) =>
              /\ bird.velocity = (5 * Scale) \div 2
              /\ bird.y = 207 * Scale + Scale \div 2
\* Five updates from (80, 200).
C15_Witness ==
    unit.ok /\ unit.first = 200 /\ unit.n = 5 /\ unit.op = "update"

\* C16: under any order of update, jump, bounce and reset the bird's y is >= 0
\* and its velocity <= 12; an update that would move y below 0 leaves y = 0
\* and velocity = 0.
C16_Bounded ==
    /\ [](bird.y >= 0 /\ bird.velocity <= 12 * Scale)
    /\ [][(BirdIntegrate /\ bird.y + Min(bird.velocity + Scale \div 2, 12 * Scale) < 0) =>
            (bird'.y = 0 /\ bird'.velocity = 0)]_vars
\* An update has just stopped the jumping bird at the top.
C16_Witness ==
    unit.op = "update" /\ ~unit.ok /\ bird.y = 0 /\ bird.velocity = 0

\* C17: a jump sets the velocity to -8 whatever it was and leaves y as it is;
\* a jump that follows a jump changes nothing of the bird.
C17_JumpOverwrites ==
    [][BirdApplyJump =>
          /\ bird'.velocity = (0 - 8) * Scale
          /\ bird'.y = bird.y /\ bird'.x = bird.x
          /\ unit.op \in {"jump", "jump again"} => bird' = bird
      ]_vars
\* Two jumps in a row, the first one on a falling bird.
C17_Witness ==
    unit.op = "jump again" /\ bird.velocity = (0 - 8) * Scale /\ unit.n >= 2

\* C18: for every draw, generatePipe appends one pipe at x = canvasWidth, not
\* scored, with 120 <= gapY <= 568 - 120 - 100 - 50 = 298; so has every pipe of
\* the field.
C18_InRange(p) ==
    /\ p.gapY >= minGapHeight * Scale
    /\ p.gapY <= (canvasHeight - minGapHeight - gapSize - groundHeight) * Scale
    /\ p.gapY >= 120 * Scale /\ p.gapY <= 298 * Scale
C18_Generated ==
    /\ \A k \in RandomDraws :
         LET ps == GeneratePipe(pipes, k, nextId)
         IN  /\ Len(ps) = Len(pipes) + 1
             /\ SubSeq(ps, 1, Len(pipes)) = pipes
             /\ ps[Len(ps)].x = canvasWidth
             /\ ~ps[Len(ps)].scored /\ ps[Len(ps)].id \notin scoredPipes
             /\ C18_InRange(ps[Len(ps)])
    /\ \A i \in DOMAIN pipes : C18_InRange(pipes[i])
\* The frame has just generated a pipe whose gap is not at the upper margin.
C18_Witness ==
    \E i \in DOMAIN pipes :
        pipes[i].x = canvasWidth /\ pipes[i].gapY > minGapHeight * Scale

\* C19: after every update() and every reset() no pipe of the field has
\* x + width < 0, the pipes an update() removed are gone from the field and
\* from the scored ids, and every scored id is the id of a pipe in the field.
C19_FieldIds == {pipes[i].id : i \in DOMAIN pipes}
C19_NoLeak ==
    /\ \A i \in DOMAIN pipes : pipes[i].x + pipeWidth >= 0
    /\ \A r \in lastRemoved : r.id \notin C19_FieldIds /\ r.id \notin scoredPipes
    /\ scoredPipes \subseteq C19_FieldIds
\* The update has just removed a pipe that had been scored.
C19_Witness ==
    \E r \in lastRemoved : timesScored[r.id] = 1

\* C20 as stated: a pipe generated at x = 320 is removed by the 140th update()
\* after its generation and by no earlier one.
C20_RemovedBy140th ==
    /\ \A i \in DOMAIN pipes : advances[pipes[i].id] < 140
    /\ \A r \in lastRemoved : r.advances = 140

\* C20 amended: a pipe generated at x = 320 is at x = 320 - 2n after n
\* update() calls and is removed by the 181st, the first with x + 40 < 0, and
\* by no earlier one.
C20_RemovedBy181st ==
    /\ \A i \in DOMAIN pipes :
         /\ pipes[i].x = 320 - 2 * advances[pipes[i].id]
         /\ advances[pipes[i].id] <= 180
    /\ \A r \in lastRemoved : r.advances = 181
\* An update has just removed a pipe.
C20_Witness ==
    lastRemoved # {} /\ currentState = PLAYING

\* C21 as stated: during Playing any two pipes adjacent in the field have x
\* positions exactly pipeSpacing (200) apart.
C21_SpacedByPipeSpacing ==
    currentState = PLAYING =>
        \A i \in 1 .. Len(pipes) - 1 : pipes[i + 1].x - pipes[i].x = pipeSpacing

\* C22: in every state the pipes are in ascending order of x in storage order
\* (the oldest, leftmost first; pipes generated on consecutive frames of Menu
\* share their x), and a step only removes pipes from the front and appends
\* new ones at the end: the pipes kept are the tail of the old collection, in
\* their old order, followed by pipes that were not in it.
C22_Ids(ps) == [i \in DOMAIN ps |-> ps[i].id]
C22_AppendOnly ==
    \E k \in 1 .. Len(pipes) + 1 : \E n \in 0 .. Len(pipes') :
        /\ SubSeq(C22_Ids(pipes'), 1, n) = SubSeq(C22_Ids(pipes), k, Len(pipes))
        /\ \A j \in n + 1 .. Len(pipes') :
             \A i \in DOMAIN pipes : pipes'[j].id # pipes[i].id
C22_AscendingX ==
    /\ [](\A i \in 1 .. Len(pipes) - 1 : pipes[i].x <= pipes[i + 1].x)
    /\ [][C22_AppendOnly]_vars
\* A Menu spawn has put a second pipe at the first one's x, and a third pipe
\* has been generated behind them.
C22_Witness ==
    /\ Len(pipes) = 3
    /\ pipes[1].x = pipes[2].x /\ pipes[2].x < pipes[3].x
    /\ menuPassed = {}

\* C23: a primary event that arrives less than jumpCooldown (100 ms) after the
\* last accepted one (no reset() in between) invokes no jump subscriber and
\* leaves the cooldown running; one that arrives at least jumpCooldown after
\* the last accepted one invokes the jump subscribers and restarts the cooldown.
C23_Cooldown ==
    [][(InputPrimary /\ ~unit.resetSince) =>
        IF unit.sinceAccepted < jumpCooldown
        THEN /\ unit'.last = "rejected" /\ unit'.log.invoked = <<>>
             /\ unit'.sinceAccepted = unit.sinceAccepted
        ELSE /\ unit'.last = "accepted" /\ unit'.log.invoked = callbacks["jump"]
             /\ unit'.sinceAccepted = 0]_vars
\* A primary event has been accepted, with subscribers to invoke, after the
\* one before it was refused and the cooldown then ran out.
C23_Witness ==
    /\ unit.op = "primary" /\ unit.last = "accepted" /\ unit.prev = "rejected"
    /\ unit.elapsed >= jumpCooldown /\ unit.log.invoked # <<>>

\* C24: a dispatch (triggerCallbacks, or an accepted primary event) invokes
\* the subscribers of its event once each in subscription order, whether or
\* not some of them throw; it reports one error per throwing subscriber and
\* no exception leaves it.
C24_AllInvoked(list, log) ==
    /\ log.invoked = list
    /\ log.reported = Cardinality({i \in DOMAIN list : Throws(list[i])})
    /\ ~log.threw
C24_Isolated ==
    /\ [][\A e \in Events : InputTrigger(e) => C24_AllInvoked(callbacks[e], unit'.log)]_vars
    /\ [][(InputPrimary /\ unit'.last = "accepted") =>
            C24_AllInvoked(callbacks["jump"], unit'.log)]_vars
\* A dispatch has invoked three subscribers of which the second threw.
C24_Witness ==
    /\ unit.op = "trigger"
    /\ unit.log = [invoked |-> <<"a", "thrower", "b">>, reported |-> 1, threw |-> FALSE]

\* C25: reset() leaves every subscriber list as it is, and the primary event
\* after it is accepted and invokes the jump subscribers whatever the time
\* since the last accepted one; destroy() leaves all three lists empty, and
\* while they are empty no dispatch invokes a callback.
C25_ResetAndDestroy ==
    /\ [][InputReset => callbacks' = callbacks]_vars
    /\ [][(InputPrimary /\ unit.resetSince) =>
            (unit'.last = "accepted" /\ unit'.log.invoked = callbacks["jump"])]_vars
    /\ [][InputDestroy => \A e \in Events : callbacks'[e] = <<>>]_vars
    /\ [][((InputPrimary \/ \E e \in InputEvents : InputTrigger(e))
            /\ \A e \in Events : callbacks[e] = <<>>) => unit'.log.invoked = <<>>]_vars
\* A primary event has been accepted, and has invoked subscribers, less than
\* the cooldown after the accepted one before it: reset() came in between.
C25_Witness ==
    /\ unit.op = "primary" /\ unit.last = "accepted" /\ unit.prev = "accepted"
    /\ unit.elapsed < jumpCooldown /\ unit.log.invoked # <<>>

\* C26: while the GameStateManager is subscribed, an accepted primary event
\* makes the bird jump when the phase is Playing and leaves the bird as it is
\* in Menu and in Ended; no primary event changes the bird outside Playing;
\* and a Menu frame changes menuBirdY and menuBirdVelocity but never the bird.
C26_JumpOnlyPlaying ==
    /\ [][(PrimaryEvent /\ Subscribed("jump") /\ sinceLastJump > 0 /\ sinceLastJump' = 0) =>
            IF currentState = PLAYING THEN bird' = BirdJump(bird) ELSE bird' = bird]_vars
    /\ [][(PrimaryEvent /\ currentState # PLAYING) => bird' = bird]_vars
    /\ [][MenuTick => /\ bird' = bird
                      /\ <<menuBirdY, menuBirdVelocity>>' # <<menuBirdY, menuBirdVelocity>>]_vars
\* A primary event has just been accepted in Menu, where the preview has moved
\* and the bird rests where start() put it.
C26_Witness ==
    /\ currentState = MENU /\ sinceLastJump = 0 /\ Subscribed("jump")
    /\ menuBirdY # menuBirdStartY * Scale
    /\ bird = NewBird(startX, startY)

\* C27: while the phase is Ended, a frame, a primary event or a start event
\* changes neither currentScore, highScore, the pipes, the scored ids nor the
\* phase, and a step that leaves Ended is a restart event.
C27_EndedFrozen ==
    /\ [][(currentState = GAME_OVER /\ (Tick \/ PrimaryEvent \/ GameStartEvent)) =>
            UNCHANGED <<currentScore, highScore, pipes, scoredPipes, currentState>>]_vars
    /\ [][(currentState = GAME_OVER /\ currentState' # GAME_OVER) => GameRestartEvent]_vars
\* The Ended phase has lasted past its last sampled frame, with pipes in the
\* field and points on the board.
C27_Witness ==
    /\ currentState = GAME_OVER /\ frame = FrameCap(GAME_OVER)
    /\ pipes # <<>> /\ scoredPipes # {} /\ currentScore >= 1

\* C28: a Playing frame checks the score on the integrated bird and the
\* advanced pipes before it checks the collision: on a frame where a pipe
\* qualifies for scoring and the collision check is true, currentScore is one
\* more, highScore is raised if exceeded, and the new-high-score test of the
\* Ended entry is made on the incremented values.
C28_ScoreBeforeCollision ==
    [][(/\ PlayingTick
        /\ QualifyingIndexes(bird', pipes', AdvanceScored(pipes, scoredPipes)) # {}
        /\ currentState' = GAME_OVER) =>
            /\ bird' = BirdUpdate(bird)
            /\ currentScore' = currentScore + 1
            /\ highScore' = Max(highScore, currentScore + 1)
            /\ newHighScoreShown' =
                 (\/ currentScore + 1 > highScore'
                  \/ currentScore + 1 = highScore' /\ currentScore + 1 > 0)]_vars
\* The frame that ended the round also scored a point.
C28_Witness ==
    /\ currentState = GAME_OVER /\ frame = 0
    /\ lastScored.id # 0 /\ currentScore >= 1 /\ newHighScoreShown

C30_EndedFrame ==
    IF IsGrounded(bird, canvasHeight)
    THEN /\ bird'.velocity = ((0 - bird.velocity) * 3) \div 10
         /\ bird'.y = bird.y
    ELSE bird' = BirdUpdate(bird)
C30_FallsThenSettles ==
    /\ [][GameOverTick => C30_EndedFrame]_vars
    /\ [][(currentState = GAME_OVER /\ IsGrounded(bird, canvasHeight)) =>
            (bird'.y = bird.y /\ IsGrounded(bird', canvasHeight))]_vars
    /\ [](currentState = GAME_OVER)
    /\ <>[]IsGrounded(bird, canvasHeight)
\* The round ended on a pipe at or above the starting height, the bird has
\* fallen to the ground and its bounce has died away.
C30_Witness ==
    /\ currentState = GAME_OVER /\ IsGrounded(bird, canvasHeight)
    /\ collisionPoint # NoPoint /\ collisionPoint.y <= startY * Scale
    /\ bird.velocity = 0 /\ frame >= 2 /\ unit = EndedUnit

\* C31: whenever the phase is Ended a collision point is recorded, and the
\* frame that ends a round records the bird's (x, y) of that frame: the frame
\* ends the round through the pipe or the ground branch, never through the
\* out-of-bounds branch alone, since a bird out of bounds (y - 10 > 568) is
\* grounded (y + 10 >= 518) at every height.
C31_Heights == 0 .. (canvasHeight + 2 * birdHeight)
C31_PointRecorded ==
    /\ [](currentState = GAME_OVER => collisionPoint # NoPoint)
    /\ [][(PlayingTick /\ currentState' = GAME_OVER) =>
            /\ collisionPoint' = [x |-> bird'.x, y |-> bird'.y]
            /\ BoxHitsSomePipe(bird', pipes') \/ IsGrounded(bird', canvasHeight)
            /\ \A y \in C31_Heights :
                 IsOutOfBounds(NewBird(startX, y), canvasHeight)
                     => IsGrounded(NewBird(startX, y), canvasHeight)]_vars
\* A round has just ended on the ground, clear of every pipe, and the point
\* recorded is the bird's.
C31_Witness ==
    /\ currentState = GAME_OVER /\ frame = 0
    /\ IsGrounded(bird, canvasHeight) /\ ~BoxHitsSomePipe(bird, pipes)
    /\ collisionPoint = [x |-> bird.x, y |-> bird.y]

\* C32 as stated: whenever the phase is Playing, the bird's box hits no pipe
\* in the field and the bird is not grounded.
C32_ClearWhilePlaying ==
    currentState = PLAYING =>
        (~BoxHitsSomePipe(bird, pipes) /\ ~IsGrounded(bird, canvasHeight))

\* C33: in a round to which no primary event is delivered, the phase is Ended
\* after at most 38 frames (frame counts the frames the round has run); a
\* round begun by restart ends on its 38th frame and no earlier, on the
\* ground, clear of every pipe, with currentScore 0.
C33_EndsWithin38 ==
    /\ [](currentState = PLAYING => frame < 38)
    /\ [][(PlayingTick /\ unit.op = "restart" /\ currentState' = GAME_OVER) =>
            /\ frame = 37
            /\ IsGrounded(bird', canvasHeight) /\ ~BoxHitsSomePipe(bird', pipes')
            /\ currentScore' = 0]_vars
\* A round begun by restart has just ended on the ground.
C33_Witness ==
    /\ unit = RoundUnit("restart")
    /\ currentState = GAME_OVER /\ frame = 0
    /\ bird.y = 518 * Scale /\ currentScore = 0

\* C34 as stated: on no Playing frame does the bird's box horizontally overlap
\* the column of a pipe scored on an earlier frame.
C34_ScoredPipesBehind ==
    [][PlayingTick => Overlapping(bird', pipes') \cap scoredPipes = {}]_vars

\* C35: a Playing frame's update() moves every pipe by the speed, drops those
\* with x + width < 0, and then appends one pipe at x = canvasWidth exactly
\* when nothing is left or the last pipe left has x < canvasWidth - spacing,
\* and nothing otherwise; so whenever update() has run since the last reset
\* the field is non-empty, its newest pipe has x >= canvasWidth - spacing and
\* every pipe has -width <= x <= canvasWidth.
C35_OnScreen(p) == p.x + pipeWidth >= 0
C35_Kept ==
    SelectSeq([i \in DOMAIN pipes |-> [pipes[i] EXCEPT !.x = @ - pipeSpeed]], C35_OnScreen)
C35_Needed ==
    C35_Kept = <<>> \/ C35_Kept[Len(C35_Kept)].x < canvasWidth - pipeSpacing
C35_MoveRemoveGenerate ==
    /\ [][PlayingTick =>
            IF C35_Needed
            THEN /\ Len(pipes') = Len(C35_Kept) + 1
                 /\ SubSeq(pipes', 1, Len(C35_Kept)) = C35_Kept
                 /\ pipes'[Len(pipes')].x = canvasWidth
            ELSE pipes' = C35_Kept]_vars
    /\ [](pipes = <<>> => (~loaded \/ (currentState = PLAYING /\ frame = 0)))
    /\ [](pipes # <<>> =>
            /\ pipes[Len(pipes)].x >= canvasWidth - pipeSpacing
            /\ \A i \in DOMAIN pipes :
                 pipes[i].x >= 0 - pipeWidth /\ pipes[i].x <= canvasWidth)
\* A Playing frame has just generated a pipe behind the ones in the field.
C35_Witness ==
    /\ currentState = PLAYING /\ frame >= 1 /\ Len(pipes) >= 2
    /\ pipes[Len(pipes)].x = canvasWidth
    /\ pipes[Len(pipes) - 1].x = canvasWidth - pipeSpacing - pipeSpeed

\* C36: a primary event is accepted or refused by the time since the last
\* accepted one alone, in every phase: with the cooldown run out it is
\* accepted and starts a new cooldown, in Menu and Ended as in Playing; a
\* refused event changes nothing but the clock it read, leaves the cooldown
\* running from the last accepted event, and is not delivered later: a frame
\* only lets the time pass, and the bird of a Playing frame is the one
\* update() makes of it.
C36_Refused ==
    /\ sinceLastJump' < jumpCooldown
    /\ \E dt \in ClockDeltas : sinceLastJump' = sinceLastJump + dt
    /\ UNCHANGED <<gameVars, bird, pipeVars, scoreVars, callbacks, hostVars>>
C36_Debounce ==
    /\ [][PrimaryEvent => (sinceLastJump' = 0 \/ C36_Refused)]_vars
    /\ [][(PrimaryEvent /\ sinceLastJump = jumpCooldown) => sinceLastJump' = 0]_vars
    /\ [][(PrimaryEvent /\ currentState = PLAYING /\ Subscribed("jump")
             /\ bird' # BirdJump(bird)) => C36_Refused]_vars
    /\ [][Tick => /\ sinceLastJump' = Min(sinceLastJump + FrameMs, jumpCooldown)
                  /\ PlayingTick => bird' = BirdUpdate(bird)]_vars
\* A primary event accepted on the 20th frame of Ended has started a cooldown.
C36_Witness ==
    /\ currentState = GAME_OVER /\ frame = 20 /\ sinceLastJump = 0

\* C37: the score and the high score are never negative, whatever text the
\* store returns for the high score when the ScoreManager is constructed.
C37_NonNegative == currentScore >= 0 /\ highScore >= 0

\* C38: the high score never decreases; after an increment that raised it and
\* whose write succeeded, the store holds the text of the high score in
\* memory; resetting the score changes neither the high score nor the store.
C38_BestKept ==
    /\ [][highScore' >= highScore]_vars
    /\ [][(ScoreIncrement /\ highScore' # highScore /\ unit'.ok)
            => storedHighScore' = <<ToString(highScore')>>]_vars
    /\ [][(ScoreIncrement /\ highScore' = highScore) => UNCHANGED storedHighScore]_vars
    /\ [][ScoreReset => (currentScore' = 0 /\ UNCHANGED <<highScore, storedHighScore>>)]_vars
\* The first point over an empty store, written, and the score reset after it.
C38_Witness ==
    /\ unit.op = "reset" /\ currentScore = 0
    /\ highScore = 1 /\ storedHighScore = <<"1">>

\* C39: with the canvas and its 2D context available, initialize() ends with
\* the loop running, the phase Menu and no failure reported.
C39_InitializedCleanly ==
    [][InitializeResume => (isRunning' /\ currentState' = MENU /\ ~errorShown')]_vars

====
